---- MODULE Spec2Model ----
(***************************************************************************)
(* A model of src/app.py, the Streamlit "Target Brand Insights Scraper".   *)
(* Text is modelled as a sequence of one-character strings, so that URL    *)
(* building, percent-encoding and the regular expressions of the program   *)
(* are computed character by character.                                    *)
(***************************************************************************)
EXTENDS Integers, Sequences, FiniteSets, TLC

VARIABLES
    pc,             \* position of the Streamlit script / button handler
    input_url,      \* st.text_input value (main, line 499)
    max_pages,      \* st.slider value (main, line 485)
    search_url,     \* main's search_url (lines 506-524)
    search_term,    \* get_all_products_impl's search_term (line 637)
    page,           \* loop variable of get_all_products_impl (line 646)
    all_products,   \* get_all_products_impl's all_products (line 636)
    requested,      \* the page_url of every session.get made, in order
    last_response,  \* the response the last session.get produced
    page_products,  \* result of the last extract_product_data_from_page
    products_data,  \* main's products_data (line 539)
    shown,          \* the DataFrame given to st.dataframe, or NoTable
    exported,       \* the 'Product Data' sheet offered for download, or NoTable
    messages,       \* st.error texts shown by main / get_all_products_impl
    raised,         \* TRUE iff an exception left extract_product_data_from_page
    src,            \* input of the function under study (item, product page)
    out             \* its result

vars == << pc, input_url, max_pages, search_url, search_term, page,
           all_products, requested, last_response, page_products,
           products_data, shown, exported, messages, raised, src, out >>

-----------------------------------------------------------------------------
(* Bounds of the model *)

MaxTermLen == 3     \* longest plain search term typed by the user
MaxPathLen == 4     \* longest URL path typed after the host or after '/b/'

-----------------------------------------------------------------------------
(* Text *)

\* Python's None, kept distinct from every text (texts hold single characters)
None == << "<None>" >>

\* Python truthiness of an Optional[str]
Truthy(s) == s # None /\ s # << >>

\* 'http'
HTTP == << "h", "t", "t", "p" >>

\* 'https://www.target.com'
HOST == << "h", "t", "t", "p", "s", ":", "/", "/", "w", "w", "w", ".",
           "t", "a", "r", "g", "e", "t", ".", "c", "o", "m" >>

\* 'searchTerm='
SEARCHTERM_EQ == << "s", "e", "a", "r", "c", "h", "T", "e", "r", "m", "=" >>

\* 'https://www.target.com/s?searchTerm='
SEARCH_PREFIX == HOST \o << "/", "s", "?" >> \o SEARCHTERM_EQ

\* '&offset='
OFFSET_EQ == << "&", "o", "f", "f", "s", "e", "t", "=" >>

\* '/b/'
SLASH_B_SLASH == << "/", "b", "/" >>

\* str.startswith
startswith(s, p) == Len(s) >= Len(p) /\ SubSeq(s, 1, Len(p)) = p

\* the start positions of `sub` in s
Occurrences(s, sub) ==
    { i \in 1..(Len(s) - Len(sub) + 1) : SubSeq(s, i, i + Len(sub) - 1) = sub }

\* `sub in s`
contains(s, sub) == Occurrences(s, sub) # {}

Min(S) == CHOOSE x \in S : \A y \in S : x <= y

\* the longest run of characters outside `excl` that starts at position i of s
RECURSIVE Run(_, _, _)
Run(s, i, excl) ==
    IF i > Len(s) \/ s[i] \in excl THEN << >>
    ELSE << s[i] >> \o Run(s, i + 1, excl)

\* re.search(lit + '([^excl]+)', s): group(1) of the leftmost match, or None.
\* A match needs at least one character outside `excl` right after `lit`.
re_search_group(s, lit, excl) ==
    LET starts == { i \in Occurrences(s, lit) :
                      i + Len(lit) <= Len(s) /\ s[i + Len(lit)] \notin excl }
    IN  IF starts = {} THEN None
        ELSE Run(s, Min(starts) + Len(lit), excl)

\* the characters urllib.parse.quote leaves alone (safe='/'), among those used
QuoteSafe == { "a", "b", "c", "p", "x", "A", "B", "0", "1", "2", "3", "4",
               "5", "6", "7", "8", "9", "-", ".", "_", "~", "/",
               "h", "t", "s", "w", "r", "g", "e", "o", "m", "T", "f" }

\* quote of one character: itself if safe, else '%XX' of its byte
QuoteChar(c) ==
    IF c \in QuoteSafe THEN << c >>
    ELSE CASE c = " " -> << "%", "2", "0" >>
           [] c = "%" -> << "%", "2", "5" >>
           [] c = "&" -> << "%", "2", "6" >>
           [] c = ":" -> << "%", "3", "A" >>
           [] c = "=" -> << "%", "3", "D" >>
           [] c = "?" -> << "%", "3", "F" >>

\* urllib.parse.quote(s)
RECURSIVE quote(_)
quote(s) == IF s = << >> THEN << >> ELSE QuoteChar(Head(s)) \o quote(Tail(s))

\* str.lower on one character
LowerChar(c) ==
    CASE c = "A" -> "a" [] c = "B" -> "b" [] c = "T" -> "t" [] OTHER -> c

\* str.lower
lower(s) == [ i \in 1..Len(s) |-> LowerChar(s[i]) ]

Digit(d) == CASE d = 0 -> "0" [] d = 1 -> "1" [] d = 2 -> "2" [] d = 3 -> "3"
              [] d = 4 -> "4" [] d = 5 -> "5" [] d = 6 -> "6" [] d = 7 -> "7"
              [] d = 8 -> "8" [] d = 9 -> "9"

\* str(n) for n >= 0
RECURSIVE IntToStr(_)
IntToStr(n) ==
    IF n < 10 THEN << Digit(n) >> ELSE IntToStr(n \div 10) \o << Digit(n % 10) >>

-----------------------------------------------------------------------------
(* Search URL and search term *)

\* TargetScraper.extract_search_term_from_url
extract_search_term_from_url(url) ==
    IF contains(url, SEARCHTERM_EQ)
    THEN re_search_group(url, SEARCHTERM_EQ, { "&" })
    ELSE IF contains(url, SLASH_B_SLASH)
    THEN re_search_group(url, SLASH_B_SLASH, { "/", "-" })
    ELSE IF ~ startswith(url, HTTP)
    THEN url
    ELSE None

\* main: "Convert input to proper search URL if needed"
main_search_url(input) ==
    IF input # << >>
    THEN IF startswith(input, HTTP)
         THEN IF contains(input, SLASH_B_SLASH)
              THEN LET brand_match ==
                         re_search_group(input, SLASH_B_SLASH, { "/", "-" })
                   IN  IF brand_match # None
                       THEN SEARCH_PREFIX \o brand_match
                       ELSE input
              ELSE input
         ELSE SEARCH_PREFIX \o quote(input)
    ELSE << >>

\* get_all_products_impl: products per page, `offset = page * 24`
PageSize == 24

\* a page_url whose offsets start at 24 instead of 0
PageUrlFromOne(term, pg) ==
    SEARCH_PREFIX \o quote(term) \o OFFSET_EQ \o IntToStr((pg + 1) * 24)

\* get_all_products_impl: page_url
PageUrl(term, pg) ==
    SEARCH_PREFIX \o quote(term) \o OFFSET_EQ \o IntToStr(pg * PageSize)

-----------------------------------------------------------------------------
(* JSON values (the result of json.loads) and Python values held by records *)

JStr(s)    == [ t |-> "str",   v |-> s ]      \* str, a text
JInt(n)    == [ t |-> "int",   v |-> n ]      \* int, n >= 0
JFloat(k)  == [ t |-> "float", v |-> k ]      \* float k/10, k >= 0
JNaN       == [ t |-> "nan",   v |-> 0 ]      \* float('nan') (json.loads reads NaN)
JNull      == [ t |-> "null",  v |-> 0 ]      \* None
JList(e)   == [ t |-> "list",  v |-> e ]      \* list, a sequence of values
JDict(kv)  == [ t |-> "dict",  v |-> kv ]     \* dict, a sequence of <<key, value>>

isstr(x)    == x.t = "str"
isdict(x)   == x.t = "dict"
islist(x)   == x.t = "list"
isnumber(x) == x.t \in { "int", "float", "nan" }   \* isinstance(x, (int, float))

\* `key in d` for a dict d
HasKey(d, key) == \E i \in 1..Len(d.v) : d.v[i][1] = key

\* d[key] for a dict d that has the key
Item(d, key) == d.v[ CHOOSE i \in 1..Len(d.v) : d.v[i][1] = key ][2]

\* d.get(key, default)
get(d, key, default) == IF HasKey(d, key) THEN Item(d, key) ELSE default

\* Python truthiness of a value
truth(x) ==
    CASE x.t = "null"  -> FALSE
      [] x.t = "str"   -> x.v # << >>
      [] x.t = "list"  -> x.v # << >>
      [] x.t = "dict"  -> x.v # << >>
      [] x.t = "int"   -> x.v # 0
      [] x.t = "float" -> x.v # 0
      [] x.t = "nan"   -> TRUE

\* 'N/A'
NA == << "N", "/", "A" >>

\* str(x) of a text, an int, a float k/10 or None
str(x) ==
    CASE x.t = "str"   -> x.v
      [] x.t = "int"   -> IntToStr(x.v)
      [] x.t = "float" -> IntToStr(x.v \div 10) \o << "." >> \o IntToStr(x.v % 10)
      [] x.t = "nan"   -> << "n", "a", "n" >>
      [] x.t = "null"  -> << "N", "o", "n", "e" >>

\* f"{value:.2f}" of a number
fmt2f(x) ==
    CASE x.t = "int"   -> IntToStr(x.v) \o << ".", "0", "0" >>
      [] x.t = "float" -> IntToStr(x.v \div 10) \o << "." >>
                              \o IntToStr(x.v % 10) \o << "0" >>
      [] x.t = "nan"   -> << "n", "a", "n" >>

\* f"{value:.1f}" of a number
fmt1f(x) ==
    CASE x.t = "int"   -> IntToStr(x.v) \o << ".", "0" >>
      [] x.t = "float" -> IntToStr(x.v \div 10) \o << "." >> \o IntToStr(x.v % 10)
      [] x.t = "nan"   -> << "n", "a", "n" >>

\* the value a path of keys leads to, as the location loops of
\* parse_product_json compute it; JNull stands for Python's None and the
\* key "[0]" for the list index 0 of image_locations
RECURSIVE Walk(_, _)
Walk(value, location) ==
    IF location = << >> THEN value
    ELSE LET key == Head(location)
         IN  IF key # "[0]"
             THEN IF isdict(value) /\ HasKey(value, key)
                  THEN Walk(Item(value, key), Tail(location))
                  ELSE JNull
             ELSE IF islist(value) /\ Len(value.v) > 0
                  THEN Walk(value.v[1], Tail(location))
                  ELSE JNull

Digits == { "0", "1", "2", "3", "4", "5", "6", "7", "8", "9" }

\* str.isdigit
isdigit(s) == s # << >> /\ \A i \in 1..Len(s) : s[i] \in Digits

\* s.replace('.', '')
RECURSIVE DropDots(_)
DropDots(s) ==
    IF s = << >> THEN << >>
    ELSE (IF Head(s) = "." THEN << >> ELSE << Head(s) >>) \o DropDots(Tail(s))

-----------------------------------------------------------------------------
(* TargetScraper.parse_product_json *)

\* `value and isinstance(value, str)`
NonEmptyStr(value) == isstr(value) /\ value.v # << >>

\* `value is not None`
NotNone(value) == value.t # "null"

\* the test that ends a location loop: "text" (Title, Image_URL),
\* "notnone" (Price), "number" (Rating, Review_Count)
Accepts(test, value) ==
    CASE test = "text"    -> NonEmptyStr(value)
      [] test = "notnone" -> NotNone(value)
      [] test = "number"  -> value.t # "null" /\ isnumber(value)

\* the value at the first location of `locations` that passes the test, or
\* JNull
FirstLoc(product_data, locations, test) ==
    LET hits == { i \in 1..Len(locations) :
                    Accepts(test, Walk(product_data, locations[i])) }
    IN  IF hits = {} THEN JNull
        ELSE Walk(product_data, locations[Min(hits)])

title_locations ==
    << << "item", "product_description", "title" >>, << "title" >>,
       << "display_name" >>, << "name" >>, << "product_description", "title" >> >>

image_locations ==
    << << "item", "enrichment", "images", "primary_image_url" >>,
       << "images", "primary_image_url" >>, << "primary_image_url" >>,
       << "image_url" >>,
       << "item", "enrichment", "images", "alternate_image_urls", "[0]" >> >>

price_locations ==
    << << "price", "current_retail" >>, << "price", "formatted_current_price" >>,
       << "current_retail" >>, << "formatted_current_price" >>, << "price" >> >>

rating_locations ==
    << << "ratings_and_reviews", "statistics", "rating", "average" >>,
       << "rating", "average" >>, << "average_rating" >>, << "rating" >> >>

review_locations ==
    << << "ratings_and_reviews", "statistics", "rating", "count" >>,
       << "rating", "count" >>, << "review_count" >>, << "reviews" >> >>

\* product_info['TCIN']
ParseTCIN(product_data) ==
    JStr(str(get(product_data, "tcin", get(product_data, "id", JStr(NA)))))

\* the text found, or 'N/A'
TextOrNA(value) == IF NonEmptyStr(value) THEN value ELSE JStr(NA)

\* product_info['Title']
ParseTitle(product_data) ==
    TextOrNA(FirstLoc(product_data, title_locations, "text"))

\* product_info['Image_URL']
ParseImage(product_data) ==
    TextOrNA(FirstLoc(product_data, image_locations, "text"))

\* lines 210-213: the price text of the value that decides
PriceOf(value) ==
    IF isnumber(value) THEN JStr(<< "$" >> \o fmt2f(value))
    ELSE IF isstr(value) /\ ("$" \in { value.v[i] : i \in 1..Len(value.v) }
                               \/ isdigit(DropDots(value.v)))
    THEN value
    ELSE JStr(NA)

\* product_info['Price']: the first location that is not None decides
ParsePrice(product_data) ==
    PriceOf(FirstLoc(product_data, price_locations, "notnone"))

\* line 234
RatingOf(value) == IF isnumber(value) THEN JStr(fmt1f(value)) ELSE JStr(NA)

\* product_info['Rating']
ParseRating(product_data) ==
    RatingOf(FirstLoc(product_data, rating_locations, "number"))

\* int(value) raises ValueError on nan, which parse_product_json turns into None
ReviewRaises(product_data) ==
    FirstLoc(product_data, review_locations, "number").t = "nan"

\* line 255: str(int(value))
ReviewCountOf(value) ==
    CASE value.t = "int"   -> JStr(IntToStr(value.v))
      [] value.t = "float" -> JStr(IntToStr(value.v \div 10))
      [] OTHER             -> JStr(NA)

\* product_info['Review_Count']
ParseReviewCount(product_data) ==
    ReviewCountOf(FirstLoc(product_data, review_locations, "number"))

\* 'https://www.target.com/p/-/A-'
PRODUCT_PREFIX == HOST \o << "/", "p", "/", "-", "/", "A", "-" >>

\* product_info['URL']
ParseURL(tcin) ==
    IF tcin # JStr(NA) THEN JStr(PRODUCT_PREFIX \o tcin.v) ELSE JStr(NA)

\* the product_info dict that parse_product_json fills in
ProductInfo(product_data, tcin) ==
    [ TCIN         |-> tcin,
      Title        |-> ParseTitle(product_data),
      Image_URL    |-> ParseImage(product_data),
      Price        |-> ParsePrice(product_data),
      Rating       |-> ParseRating(product_data),
      Review_Count |-> ParseReviewCount(product_data),
      URL          |-> ParseURL(tcin) ]

\* parse_product_json: << product_info >>, or << >> for None
parse_product_json(product_data) ==
    IF ReviewRaises(product_data) THEN << >>
    ELSE << ProductInfo(product_data, ParseTCIN(product_data)) >>

-----------------------------------------------------------------------------
(* TargetScraper.extract_products_from_json *)

product_indicators == { "tcin", "title", "price", "item", "product_description" }

\* looks_like_product
looks_like_product(item) ==
    isdict(item) /\ \E k \in product_indicators : HasKey(item, k)

\* is_relevant_product
is_relevant_product(product_info, term) ==
    IF ~ Truthy(term) THEN TRUE
    ELSE contains(lower(product_info.Title.v), lower(term))

\* key.lower() for the keys used
KeyLower(k) ==
    CASE k = "Products" -> "products" [] k = "Items" -> "items"
      [] k = "Results" -> "results" [] OTHER -> k

\* lines 105-106: the parsed item, << >> if it is no product or parsing fails
ItemInfo(item) ==
    IF looks_like_product(item) THEN parse_product_json(item) ELSE << >>

\* lines 107-108: the product appended for one item, if any
Appended(info, term) ==
    IF info # << >> /\ is_relevant_product(info[1], term) THEN info ELSE << >>

\* the body of `for item in value` over one product array
RECURSIVE ProductsOfArray(_, _)
ProductsOfArray(items, term) ==
    IF items = << >> THEN << >>
    ELSE Appended(ItemInfo(Head(items)), term)
         \o ProductsOfArray(Tail(items), term)

\* find_products_recursive: the products appended, in order
RECURSIVE find_products_recursive(_, _)
RECURSIVE FindInPairs(_, _)
RECURSIVE FindInList(_, _)
FindInPairs(kv, term) ==
    IF kv = << >> THEN << >>
    ELSE (IF KeyLower(Head(kv)[1]) \in { "products", "items", "results" }
             /\ islist(Head(kv)[2])
          THEN ProductsOfArray(Head(kv)[2].v, term)
          ELSE find_products_recursive(Head(kv)[2], term))
         \o FindInPairs(Tail(kv), term)
FindInList(e, term) ==
    IF e = << >> THEN << >>
    ELSE find_products_recursive(Head(e), term) \o FindInList(Tail(e), term)
find_products_recursive(obj, term) ==
    IF isdict(obj) THEN FindInPairs(obj.v, term)
    ELSE IF islist(obj) THEN FindInList(obj.v, term)
    ELSE << >>

\* extract_products_from_json
extract_products_from_json(data, term) == find_products_recursive(data, term)

-----------------------------------------------------------------------------
(* TargetScraper.extract_product_data_from_page *)

(* A response of session.get is                                            *)
(*   [ kind: "ok" (HTTP 200), "status" (another status) or "raise" (the    *)
(*           request raised), scripts, inline ]                            *)
(* scripts: the <script type="application/json"> tags in document order,   *)
(*          each a blob;                                                   *)
(* inline:  the assignments `<marker> = {...}` of the page text in         *)
(*          document order, each [ marker, blob ].                         *)
(* A blob is the text of one JSON source, by what json.loads makes of it:  *)
(*   "nostring" (script.string is None), "invalid" (JSONDecodeError) or    *)
(*   "doc" with the value json.loads returns.                              *)

NoString    == [ b |-> "nostring", data |-> JNull ]
Invalid     == [ b |-> "invalid",  data |-> JNull ]
Doc(data)   == [ b |-> "doc",      data |-> data ]

\* the lines 56-65 / 78-85 for one blob: products_found, << >> when the blob
\* has no string or json.loads raises JSONDecodeError
BlobProducts(blob, term) ==
    IF blob.b = "doc" THEN extract_products_from_json(blob.data, term) ELSE << >>

\* a loop that does not leave at the first source with products and keeps
\* the products of every source
FirstWithProductsMerged(first, rest) == first \o rest

\* `first` if it holds products, else `rest`: what a loop keeps that leaves
\* (`break`) at the first source with products
FirstWithProducts(first, rest) == IF first # << >> THEN first ELSE rest

\* a loop over sources that stops at the first one with products (`break`)
RECURSIVE ScanBlobs(_, _)
ScanBlobs(blobs, term) ==
    IF blobs = << >> THEN << >>
    ELSE FirstWithProducts(BlobProducts(Head(blobs), term),
                           ScanBlobs(Tail(blobs), term))

\* the markers of script_patterns, in the order of the list
script_patterns == << "__TGT_DATA__", "__INITIAL_STATE__", "__NEXT_DATA__" >>

\* TRUE iff the JSON text of x holds a '}' before its last character, i.e.
\* x is a dict with a dict somewhere inside it
RECURSIVE HoldsDict(_)
HoldsDict(x) ==
    \/ isdict(x)
    \/ islist(x) /\ \E i \in 1..Len(x.v) : HoldsDict(x.v[i])
NestedDict(x) ==
    isdict(x) /\ \E i \in 1..Len(x.v) : HoldsDict(x.v[i][2])

\* what the group ({.*?}) of a pattern captures of an assigned blob:
\* '({.*?});' (the first two patterns) takes the text up to the first '};',
\* the whole object; '({.*?})' (__NEXT_DATA__) stops at the first '}', so an
\* object that holds another object is cut short and no longer parses
Capture(marker, blob) ==
    IF marker = "__NEXT_DATA__" /\ blob.b = "doc" /\ NestedDict(blob.data)
    THEN Invalid
    ELSE blob

\* re.findall(pattern, content): the captures of one marker, document order
RECURSIVE findall(_, _)
findall(marker, inline) ==
    IF inline = << >> THEN << >>
    ELSE (IF Head(inline).marker = marker
          THEN << Capture(marker, Head(inline).blob) >> ELSE << >>)
         \o findall(marker, Tail(inline))

\* Method 2: `for pattern in script_patterns`, leaving at the first pattern
\* one of whose matches has products
RECURSIVE ScanPatterns(_, _, _)
ScanPatterns(patterns, inline, term) ==
    IF patterns = << >> THEN << >>
    ELSE FirstWithProducts(ScanBlobs(findall(Head(patterns), inline), term),
                           ScanPatterns(Tail(patterns), inline, term))

\* the body of the try block for a 200 response: Method 1, then Method 2
\* `if not products`
ExtractMethods(response, term) ==
    FirstWithProducts(ScanBlobs(response.scripts, term),
                      ScanPatterns(script_patterns, response.inline, term))

\* extract_product_data_from_page without its try/except: a request that
\* raises leaves the function with the exception
ExtractWithoutTry(response, term) ==
    CASE response.kind = "raise"  -> [ products |-> << >>, escaped |-> TRUE ]
      [] response.kind = "status" -> [ products |-> << >>, escaped |-> FALSE ]
      [] response.kind = "ok"     ->
            [ products |-> ExtractMethods(response, term), escaped |-> FALSE ]

\* extract_product_data_from_page: the list returned, and whether an
\* exception left the function (`except Exception` returns [] instead)
extract_product_data_from_page(response, term) ==
    CASE response.kind = "raise"  -> [ products |-> << >>, escaped |-> FALSE ]
      [] response.kind = "status" -> [ products |-> << >>, escaped |-> FALSE ]
      [] response.kind = "ok"     ->
            [ products |-> ExtractMethods(response, term), escaped |-> FALSE ]

-----------------------------------------------------------------------------
(* pandas: the table and the sheet *)

\* pd.DataFrame(records): the columns are the keys of the records, a record
\* without a key gets NaN in that column
DataFrame(records) ==
    LET columns == UNION { DOMAIN records[i] : i \in 1..Len(records) }
    IN  [ columns |-> columns,
          rows    |-> [ i \in 1..Len(records) |->
                          [ c \in columns |->
                              IF c \in DOMAIN records[i] THEN records[i][c]
                              ELSE JNaN ] ] ]

\* a cell of the sheet: None and NaN are written as empty cells
ExcelCell(x) == IF x.t \in { "null", "nan" } THEN JStr(<< >>) ELSE x

\* df.to_excel(writer, sheet_name='Product Data', index=False)
to_excel(df) ==
    [ columns |-> df.columns,
      rows    |-> [ i \in 1..Len(df.rows) |->
                      [ c \in df.columns |-> ExcelCell(df.rows[i][c]) ] ] ]

-----------------------------------------------------------------------------
(* The automated method: main and get_all_products_impl *)

\* the script run that turns the text input into search_url (main, 506-524)
Convert ==
    /\ pc = "input"
    /\ search_url' = main_search_url(input_url)
    /\ pc' = "ready"
    /\ UNCHANGED << input_url, max_pages, search_term, page, all_products,
                    requested, last_response, page_products, products_data,
                    shown, exported, messages, raised, src, out >>

\* the click on "Start Automated Scraping" up to the first page request:
\* main 526-539 and get_all_products_impl 636-643
Start ==
    /\ pc = "ready"
    /\ IF search_url = << >>
       THEN /\ messages' = messages \cup { "Please enter a search term or URL" }
            /\ pc' = "done"
            /\ UNCHANGED << search_term, products_data >>
       ELSE /\ search_term' = extract_search_term_from_url(search_url)
            /\ IF ~ Truthy(search_term')
               THEN /\ messages' = messages \cup
                          { "Could not extract search term from URL" }
                    /\ products_data' = << >>
                    /\ pc' = "returned"
               ELSE /\ pc' = "loop"
                    /\ UNCHANGED << messages, products_data >>
    /\ page' = 0
    /\ all_products' = << >>
    /\ UNCHANGED << input_url, max_pages, search_url, requested, last_response,
                    page_products, shown, exported, raised, src, out >>

\* lines 655-671 for the result r of extract_product_data_from_page: the loop
\* is left by `break` or when the range is used up, and
\* get_all_products_impl then returns all_products
AfterPage(r) ==
    /\ page_products' = r.products
    /\ raised' = (raised \/ r.escaped)
    /\ all_products' = IF r.escaped THEN all_products
                       ELSE all_products \o r.products
    /\ IF \/ r.escaped
          \/ r.products = << >>
          \/ Len(r.products) < PageSize
          \/ page + 1 >= max_pages
       THEN /\ products_data' = all_products'
            /\ pc' = "returned"
            /\ page' = page
       ELSE /\ page' = page + 1
            /\ pc' = "loop"
            /\ UNCHANGED products_data

\* one pass of `for page in range(max_pages)` (646-671) with the response of
\* its session.get
FetchPage(response) ==
    /\ pc = "loop"
    /\ page < max_pages
    /\ requested' = Append(requested, PageUrl(search_term, page))
    /\ last_response' = response
    /\ AfterPage(extract_product_data_from_page(response, search_term))
    /\ UNCHANGED << input_url, max_pages, search_url, search_term, shown,
                    exported, messages, src, out >>

\* main without the `if not products_data` return: the table and the
\* download are built from whatever was returned
FinishAlways ==
    /\ pc = "returned"
    /\ shown' = << DataFrame(products_data) >>
    /\ exported' = << to_excel(shown'[1]) >>
    /\ pc' = "done"
    /\ UNCHANGED << input_url, max_pages, search_url, search_term, page,
                    all_products, requested, last_response, page_products,
                    products_data, raised, src, out, messages >>

\* main 541-558 and display_results: the error, or the table and the download
Finish ==
    /\ pc = "returned"
    /\ IF products_data = << >>
       THEN /\ messages' = messages \cup { "Automated scraping failed" }
            /\ UNCHANGED << shown, exported >>
       ELSE /\ shown' = << DataFrame(products_data) >>
            /\ exported' = << to_excel(shown'[1]) >>
            /\ UNCHANGED messages
    /\ pc' = "done"
    /\ UNCHANGED << input_url, max_pages, search_url, search_term, page,
                    all_products, requested, last_response, page_products,
                    products_data, raised, src, out >>

-----------------------------------------------------------------------------
(* Inputs *)

MaxPages == 3       \* largest value of the "Maximum pages" slider explored

\* a text of the search term 'ab' and of other words
TERM_AB == << "a", "b" >>

\* a product object of a page: tcin and title
Product(tcin, title) ==
    JDict(<< << "tcin", JStr(tcin) >>, << "title", JStr(title) >> >>)

\* a title that holds the term 'ab' (in capitals), and one that does not
TITLE_AB    == << "A", "B", " ", "p", "x" >>
TITLE_OTHER == << "x", "p" >>

\* n products with the TCINs first+1 .. first+n
Products(first, n) ==
    [ i \in 1..n |-> Product(IntToStr(first + i), TITLE_AB) ]

\* { "data": { "search": { "products": items } } }
SearchDoc(items) ==
    JDict(<< << "data", JDict(<< << "search",
             JDict(<< << "products", JList(items) >> >>) >> >>) >> >>)

\* { "Items": a, "meta": [ { "results": b } ] }: two product arrays
TwoArrayDoc(a, b) ==
    JDict(<< << "Items", JList(a) >>,
             << "meta", JList(<< JDict(<< << "results", JList(b) >> >>) >>) >> >>)

OkPage(scripts, inline) ==
    [ kind |-> "ok", scripts |-> scripts, inline |-> inline ]

Assign(marker, blob) == [ marker |-> marker, blob |-> blob ]

\* the responses session.get may produce in the automated method
Responses ==
    { [ kind |-> "status", scripts |-> << >>, inline |-> << >> ],
      [ kind |-> "raise",  scripts |-> << >>, inline |-> << >> ],
      OkPage(<< >>, << >>),
      OkPage(<< Invalid >>, << >>),
      OkPage(<< Doc(SearchDoc(Products(0, PageSize))) >>, << >>),
      OkPage(<< Doc(SearchDoc(Products(PageSize, PageSize))) >>, << >>),
      OkPage(<< NoString, Invalid >>,
             << Assign("__TGT_DATA__", Doc(SearchDoc(Products(0, PageSize)))) >>),
      OkPage(<< Doc(SearchDoc(Products(0, 2))) >>, << >>),
      OkPage(<< Doc(SearchDoc(Products(0, 1) \o Products(0, 1))) >>, << >>),
      OkPage(<< Doc(TwoArrayDoc(Products(0, 1), Products(0, 2))) >>, << >>),
      OkPage(<< Doc(SearchDoc(<< Product(<< "7" >>, TITLE_OTHER) >>)) >>, << >>),
      OkPage(<< Invalid, Doc(SearchDoc(Products(2, 1))) >>,
             << Assign("__INITIAL_STATE__", Doc(SearchDoc(Products(5, 1)))) >>) }

\* what the user may type in the automated method
MainInputs ==
    { << >>,
      TERM_AB,
      << "a", " ", "b" >>,
      SEARCH_PREFIX \o TERM_AB,
      HOST \o << "/", "b", "/", "a", "b", "/" >>,
      HOST \o << "/", "c", "/", "x" >> }

Init ==
    /\ pc = "input"
    /\ input_url \in MainInputs
    /\ max_pages \in 1..MaxPages
    /\ search_url = << >>
    /\ search_term = None
    /\ page = 0
    /\ all_products = << >>
    /\ requested = << >>
    /\ last_response = OkPage(<< >>, << >>)
    /\ page_products = << >>
    /\ products_data = << >>
    /\ shown = << >>
    /\ exported = << >>
    /\ messages = {}
    /\ raised = FALSE
    /\ src = JNull
    /\ out = << >>

Fetch == pc = "loop" /\ \E response \in Responses : FetchPage(response)

Next == Convert \/ Start \/ Fetch \/ Finish

Spec == Init /\ [][Next]_vars

-----------------------------------------------------------------------------
(* The search-term functions on many inputs *)

TermChars == { "a", "B", " ", "&", "-", "/" }
PathChars == { "/", "b", "a", "-", "&" }

\* the texts over `chars` of length 0 .. n
Texts(chars, n) == UNION { [ 1..k -> chars ] : k \in 0..n }

\* plain terms, URLs of the host with a path, brand URLs and search URLs
TermInputs ==
    Texts(TermChars, MaxTermLen)
    \cup { HOST \o path : path \in Texts(PathChars, MaxPathLen) }
    \cup { HOST \o SLASH_B_SLASH \o rest : rest \in Texts(PathChars, MaxPathLen) }
    \cup { SEARCH_PREFIX \o t : t \in Texts(TermChars, MaxTermLen) }

InitTerm ==
    /\ pc = "input"
    /\ input_url \in TermInputs
    /\ max_pages = 1
    /\ search_url = << >>
    /\ search_term = None
    /\ page = 0
    /\ all_products = << >>
    /\ requested = << >>
    /\ last_response = OkPage(<< >>, << >>)
    /\ page_products = << >>
    /\ products_data = << >>
    /\ shown = << >>
    /\ exported = << >>
    /\ messages = {}
    /\ raised = FALSE
    /\ src = JNull
    /\ out = << >>

\* the first page request is answered with a status other than 200
FetchRefused ==
    FetchPage([ kind |-> "status", scripts |-> << >>, inline |-> << >> ])

NextTerm == Convert \/ Start \/ FetchRefused \/ Finish

SpecTerm == InitTerm /\ [][NextTerm]_vars

-----------------------------------------------------------------------------
(* extract_product_data_from_page on many pages *)

MaxSources == 3     \* most JSON sources (script tags and inline assignments) of a page

DocNone == Doc(SearchDoc(<< Product(<< "7" >>, TITLE_OTHER) >>))
DocA    == Doc(SearchDoc(Products(0, 2)))
DocB    == Doc(SearchDoc(Products(2, 1)))

ScriptBlobs == { NoString, Invalid, DocNone, DocA, DocB }

InlineAssignments ==
    { Assign(script_patterns[m], blob) :
        m \in 1..Len(script_patterns), blob \in { Invalid, DocA, DocB } }

\* the numbers << k, m >> of script tags and inline assignments of a page
\* with at most MaxSources sources
PageShapes ==
    { x \in (0..MaxSources) \X (0..MaxSources) : x[1] + x[2] <= MaxSources }

InitPage ==
    /\ pc = "input"
    /\ input_url = TERM_AB
    /\ max_pages = 1
    /\ search_url = << >>
    /\ search_term = None
    /\ page = 0
    /\ all_products = << >>
    /\ requested = << >>
    /\ last_response = OkPage(<< >>, << >>)
    /\ page_products = << >>
    /\ products_data = << >>
    /\ shown = << >>
    /\ exported = << >>
    /\ messages = {}
    /\ raised = FALSE
    /\ src = JNull
    /\ out = << >>

\* a page request answered with any 200 page of a shape of PageShapes
FetchAny ==
    /\ pc = "loop"
    /\ \E x \in PageShapes :
         \E scripts \in [ 1..x[1] -> ScriptBlobs ],
            inline \in [ 1..x[2] -> InlineAssignments ] :
             FetchPage(OkPage(scripts, inline))

NextPage == Convert \/ Start \/ FetchAny \/ Finish

SpecPage == InitPage /\ [][NextPage]_vars

-----------------------------------------------------------------------------
(* The manual method: AlternativeTargetScraper.scrape_individual_product *)

(* A product page response is [ kind, ld, titles ]:                        *)
(*   ld:     the <script type="application/ld+json"> tags, each a blob;    *)
(*   titles: for each entry of title_selectors, << >> if select_one finds  *)
(*           nothing, else << the element's stripped text >>.              *)

\* d with d[k] = v
Put(d, k, v) == [ x \in DOMAIN d \cup { k } |-> IF x = k THEN v ELSE d[x] ]

\* {}
EmptyDict == [ x \in {} |-> JNull ]

\* the longest run of characters of `incl` that starts at position i of s
RECURSIVE RunIn(_, _, _)
RunIn(s, i, incl) ==
    IF i > Len(s) \/ s[i] \notin incl THEN << >>
    ELSE << s[i] >> \o RunIn(s, i + 1, incl)

\* '/A-'
SLASH_A_DASH == << "/", "A", "-" >>

\* re.search(r'/A-(\d+)', product_url): group(1) if it matches, else 'N/A'
UrlTCIN(product_url) ==
    IF \E i \in Occurrences(product_url, SLASH_A_DASH) :
           i + 3 <= Len(product_url) /\ product_url[i + 3] \in Digits
    THEN RunIn(product_url,
               3 + Min({ i \in Occurrences(product_url, SLASH_A_DASH) :
                          i + 3 <= Len(product_url)
                          /\ product_url[i + 3] \in Digits }),
               Digits)
    ELSE NA

\* 'Product'
PRODUCT_TYPE == << "P", "r", "o", "d", "u", "c", "t" >>

\* lines 423-425
WithPrice(json_data, product_data) ==
    IF isdict(get(json_data, "offers", JDict(<< >>)))
       /\ HasKey(get(json_data, "offers", JDict(<< >>)), "price")
    THEN Put(product_data, "Price",
             JStr(<< "$" >> \o str(Item(Item(json_data, "offers"), "price"))))
    ELSE product_data

\* rating_data.get raises AttributeError when rating_data is truthy and no dict
RatingRaises(json_data) ==
    /\ truth(get(json_data, "aggregateRating", JDict(<< >>)))
    /\ ~ isdict(get(json_data, "aggregateRating", JDict(<< >>)))

\* lines 428-431
WithRating(json_data, product_data) ==
    IF truth(get(json_data, "aggregateRating", JDict(<< >>)))
    THEN Put(Put(product_data, "Rating",
                 JStr(str(get(Item(json_data, "aggregateRating"),
                              "ratingValue", JStr(NA))))),
             "Review_Count",
             JStr(str(get(Item(json_data, "aggregateRating"),
                          "reviewCount", JStr(NA)))))
    ELSE product_data

\* lines 434-438
WithImage(json_data, product_data) ==
    IF islist(get(json_data, "image", JNull))
       /\ truth(get(json_data, "image", JNull))
    THEN Put(product_data, "Image_URL", Item(json_data, "image").v[1])
    ELSE IF isstr(get(json_data, "image", JNull))
    THEN Put(product_data, "Image_URL", Item(json_data, "image"))
    ELSE product_data

\* lines 420-438 for a JSON-LD object of @type Product
FromProduct(json_data, product_data) ==
    WithImage(json_data,
      WithRating(json_data,
        WithPrice(json_data,
          Put(product_data, "Title", get(json_data, "name", JStr(NA))))))

IsProductLd(blob) ==
    /\ blob.b = "doc"
    /\ isdict(blob.data)
    /\ get(blob.data, "@type", JNull) = JStr(PRODUCT_TYPE)

\* `for script in json_scripts` (416-443): an exception that is neither
\* JSONDecodeError nor KeyError leaves the loop: json.loads(None) raises
\* TypeError, rating_data.get may raise AttributeError
RECURSIVE LdRaises(_)
LdRaises(ld) ==
    IF ld = << >> THEN FALSE
    ELSE IF Head(ld).b = "nostring" THEN TRUE
    ELSE IF IsProductLd(Head(ld)) THEN RatingRaises(Head(ld).data)
    ELSE LdRaises(Tail(ld))

\* product_data after the loop, when nothing is raised
RECURSIVE LdScan(_, _)
LdScan(ld, product_data) ==
    IF ld = << >> THEN product_data
    ELSE IF IsProductLd(Head(ld)) THEN FromProduct(Head(ld).data, product_data)
    ELSE LdScan(Tail(ld), product_data)

\* the text of the first selector that finds an element, if any
RECURSIVE FirstTitle(_)
FirstTitle(titles) ==
    IF titles = << >> THEN << >>
    ELSE IF Head(titles) # << >> THEN Head(titles)
    ELSE FirstTitle(Tail(titles))

\* lines 446-462: the fallback to the HTML title
WithTitleFallback(titles, product_data) ==
    IF "Title" \notin DOMAIN product_data \/ product_data["Title"] = JStr(NA)
    THEN IF FirstTitle(titles) # << >>
         THEN Put(product_data, "Title", JStr(FirstTitle(titles)[1]))
         ELSE Put(product_data, "Title", JStr(NA))
    ELSE product_data

\* lines 465-467 for one field
WithDefault(product_data, field) ==
    IF field \notin DOMAIN product_data
    THEN Put(product_data, field, JStr(NA)) ELSE product_data

\* lines 465-467
WithDefaults(product_data) ==
    WithDefault(WithDefault(WithDefault(WithDefault(product_data,
        "Price"), "Rating"), "Review_Count"), "Image_URL")

\* scrape_individual_product: << product_data >>, or << >> for None
scrape_individual_product(product_url, response) ==
    IF response.kind # "ok" \/ LdRaises(response.ld) THEN << >>
    ELSE << WithDefaults(
              WithTitleFallback(response.titles,
                LdScan(response.ld,
                  Put(Put(EmptyDict, "TCIN", JStr(UrlTCIN(product_url))),
                      "URL", JStr(product_url))))) >>

-----------------------------------------------------------------------------
(* The record-building functions on many inputs *)

\* lines 105-108 for one item of a product array
ParseItem ==
    /\ pc = "item"
    /\ out' = Appended(ItemInfo(src), search_term)
    /\ pc' = "parsed"
    /\ UNCHANGED << input_url, max_pages, search_url, search_term, page,
                    all_products, requested, last_response, page_products,
                    products_data, shown, exported, messages, raised, src >>

\* manual_product_input, lines 360-362, for one URL
ScrapeManual ==
    /\ pc = "manual"
    /\ out' = scrape_individual_product(src.url, src.response)
    /\ pc' = "parsed"
    /\ UNCHANGED << input_url, max_pages, search_url, search_term, page,
                    all_products, requested, last_response, page_products,
                    products_data, shown, exported, messages, raised, src >>

\* a dict of the pairs whose value is given (<< >> leaves the key out)
Pair(key, opt) == IF opt = << >> THEN << >> ELSE << << key, opt[1] >> >>

URL_TEXT == << "h", "t", "t", "p", ":", "/", "/", "x" >>

Items ==
    { JDict(Pair("tcin", tcin) \o Pair("id", id) \o Pair("title", title)
            \o Pair("price", price) \o Pair("rating", rating)
            \o Pair("reviews", reviews) \o Pair("image_url", image)) :
        tcin    \in { << >>, << JNull >>, << JStr(<< "1", "2" >>) >>, << JInt(7) >> },
        id      \in { << >>, << JStr(<< "5" >>) >> },
        title   \in { << >>, << JStr(TITLE_AB) >>, << JStr(TITLE_OTHER) >>,
                      << JInt(3) >> },
        price   \in { << >>, << JFloat(59) >>, << JStr(<< "$", "5" >>) >>,
                      << JStr(<< "x" >>) >>,
                      << JDict(<< << "current_retail", JInt(4) >> >>) >> },
        rating  \in { << >>, << JFloat(45) >>, << JStr(<< "4" >>) >>,
                      << JDict(<< << "average", JNaN >> >>) >> },
        reviews \in { << >>, << JInt(12) >>, << JNaN >>, << JNull >> },
        image   \in { << >>, << JStr(URL_TEXT) >> } }

LdDocs ==
    { JDict(<< << "@type", JStr(type) >> >> \o Pair("name", name)
            \o Pair("offers", offers) \o Pair("aggregateRating", rating)
            \o Pair("image", image)) :
        type   \in { PRODUCT_TYPE, << "x" >> },
        name   \in { << >>, << JStr(TITLE_AB) >>, << JNull >> },
        offers \in { << >>, << JDict(<< << "price", JFloat(59) >> >>) >>,
                     << JList(<< >>) >> },
        rating \in { << >>,
                     << JDict(<< << "ratingValue", JFloat(45) >>,
                                 << "reviewCount", JInt(12) >> >>) >>,
                     << JDict(<< << "ratingValue", JNull >> >>) >>,
                     << JList(<< JInt(1) >>) >> },
        image  \in { << >>, << JStr(URL_TEXT) >>,
                     << JList(<< JStr(URL_TEXT) >>) >>, << JList(<< >>) >> } }

ProductUrls ==
    { HOST \o << "/", "p", "/", "x", "/", "A", "-", "1", "2" >>,
      HOST \o << "/", "p", "/", "x" >> }

TitleMatches ==
    { << << >>, << >>, << >>, << >> >>,
      << << >>, << TITLE_AB >>, << >>, << TITLE_OTHER >> >> }

ManualInputs ==
    { [ url |-> url,
        response |-> [ kind |-> "ok", ld |-> ld, titles |-> titles ] ] :
        url \in ProductUrls, titles \in TitleMatches,
        ld \in { << >>, << Invalid >>, << NoString >> }
               \cup { << Doc(d) >> : d \in LdDocs }
               \cup { << Invalid, Doc(d) >> : d \in LdDocs } }
    \cup { [ url |-> url,
             response |-> [ kind |-> kind, ld |-> << >>,
                            titles |-> << << >>, << >>, << >>, << >> >> ] ] :
             url \in ProductUrls, kind \in { "status", "raise" } }

InitParse ==
    /\ \/ pc = "item" /\ src \in Items
       \/ pc = "manual" /\ src \in ManualInputs
    /\ input_url = TERM_AB
    /\ max_pages = 1
    /\ search_url = SEARCH_PREFIX \o TERM_AB
    /\ search_term = TERM_AB
    /\ page = 0
    /\ all_products = << >>
    /\ requested = << >>
    /\ last_response = OkPage(<< >>, << >>)
    /\ page_products = << >>
    /\ products_data = << >>
    /\ shown = << >>
    /\ exported = << >>
    /\ messages = {}
    /\ raised = FALSE
    /\ out = << >>

NextParse == ParseItem \/ ScrapeManual

SpecParse == InitParse /\ [][NextParse]_vars

-----------------------------------------------------------------------------
(* Claims *)

Fields == { "TCIN", "Title", "Image_URL", "Price", "Rating", "Review_Count", "URL" }

\* C1: the list get_all_products returns never holds two records with the
\* same TCIN.
C1_NoDuplicateTCIN ==
    \A i, j \in 1..Len(products_data) :
        i # j => products_data[i].TCIN # products_data[j].TCIN

\* the sources of a page in the order the claim C3 gives: the script tags,
\* then the captures of the three inline patterns
SourcesInOrder(response) ==
    response.scripts
    \o findall("__TGT_DATA__", response.inline)
    \o findall("__INITIAL_STATE__", response.inline)
    \o findall("__NEXT_DATA__", response.inline)

\* the positions of the sources that yield at least one product
Yielding(sources, term) ==
    { i \in 1..Len(sources) : BlobProducts(sources[i], term) # << >> }

\* the products of the first source that yields one, << >> if none does
FirstYield(sources, term) ==
    IF Yielding(sources, term) = {} THEN << >>
    ELSE BlobProducts(sources[Min(Yielding(sources, term))], term)

\* C3: the result of a page is exactly the products of the first source, in
\* the order script tags, __TGT_DATA__, __INITIAL_STATE__, __NEXT_DATA__, that
\* yields a product, and is empty if no source yields one.
C3_FirstYieldingSource ==
    (requested # << >> /\ last_response.kind = "ok") =>
        page_products = FirstYield(SourcesInOrder(last_response), search_term)

\* a page whose script tags yield nothing, whose first inline pattern has an
\* unparsable match and whose second pattern yields the result
C3_Witness ==
    /\ requested # << >>
    /\ last_response.kind = "ok"
    /\ ScanBlobs(last_response.scripts, search_term) = << >>
    /\ Len(last_response.scripts) = 1
    /\ Len(last_response.inline) = 2
    /\ last_response.inline[1].marker = "__INITIAL_STATE__"
    /\ last_response.inline[2] = Assign("__TGT_DATA__", DocB)
    /\ last_response.inline[1].blob = DocA
    /\ page_products = BlobProducts(DocB, search_term)

\* a fetch whose response is not a parsable 200 page
FailedFetch ==
    /\ pc = "loop"
    /\ requested' # requested
    /\ \/ last_response'.kind # "ok"
       \/ /\ last_response'.scripts # << >>
          /\ \A i \in 1..Len(last_response'.scripts) :
                 last_response'.scripts[i] = Invalid
          /\ last_response'.inline = << >>

\* C4: no exception leaves extract_product_data_from_page, and a fetch that
\* fails (status, exception, unparsable JSON) yields an empty page, after
\* which get_all_products returns what the earlier pages had gathered.
C4_BestEffort ==
    /\ [] (~ raised)
    /\ [][ FailedFetch => /\ page_products' = << >>
                          /\ pc' = "returned"
                          /\ products_data' = all_products ]_vars

\* the second page request raised after a first page of 24 products
C4_Witness ==
    /\ pc = "returned"
    /\ Len(requested) = 2
    /\ last_response.kind = "raise"
    /\ Len(products_data) = 24

\* C5: a plain term t is the extracted search term, and the page requested
\* is the search URL shown to the user (t encoded once) plus the offset.
C5_TermRoundTrip ==
    (pc = "done" /\ input_url # << >> /\ ~ startswith(input_url, HTTP)) =>
        /\ search_term = input_url
        /\ requested = << search_url \o OFFSET_EQ \o << "0" >> >>

\* the path segment that follows the first '/b/' of url, up to the next '/'
BrandSegment(url) ==
    Run(url, Min(Occurrences(url, SLASH_B_SLASH)) + 3, { "/" })

\* url holds '/b/<name>/' with a non-empty name, and no 'searchTerm='
IsBrandUrl(url) ==
    /\ startswith(url, HTTP)
    /\ contains(url, SLASH_B_SLASH)
    /\ ~ contains(url, SEARCHTERM_EQ)
    /\ BrandSegment(url) # << >>
    /\ Min(Occurrences(url, SLASH_B_SLASH)) + 3 + Len(BrandSegment(url))
         <= Len(url)

\* C6: for a brand URL the extracted search term is the whole path segment
\* that follows '/b/'.
C6_BrandSegment ==
    (pc = "done" /\ IsBrandUrl(input_url)) =>
        search_term = BrandSegment(input_url)

\* C7: once the click is handled, the table and the download exist exactly
\* when get_all_products returned products; they hold the returned records,
\* the sheet holds the records of the table, and with no products an error
\* is shown.  Before that nothing is displayed.
C7_DisplayIffProducts ==
    /\ pc # "done" => (shown = << >> /\ exported = << >>)
    /\ pc = "done" =>
         /\ (shown # << >>) <=> (products_data # << >>)
         /\ (exported # << >>) <=> (products_data # << >>)
         /\ products_data = << >> => messages # {}
         /\ products_data # << >> =>
              /\ shown[1].columns = Fields
              /\ Len(shown[1].rows) = Len(products_data)
              /\ \A i \in 1..Len(products_data) :
                     \A c \in Fields : shown[1].rows[i][c] = products_data[i][c]
              /\ exported[1] = shown[1]

\* a table of two pages is displayed
C7_Witness ==
    /\ pc = "done"
    /\ shown # << >>
    /\ Len(shown[1].rows) > 24
    /\ exported # << >>

\* C8: at most max_pages pages are requested, the k-th request (from 0)
\* carries offset 24*k, no URL is requested twice, and while the loop runs
\* the next page is the number of requests made, below max_pages.
C8_Pagination ==
    /\ Len(requested) <= max_pages
    /\ \A k \in 1..Len(requested) :
           requested[k] = SEARCH_PREFIX \o quote(search_term) \o OFFSET_EQ
                            \o IntToStr(24 * (k - 1))
    /\ \A j, k \in 1..Len(requested) : j # k => requested[j] # requested[k]
    /\ pc = "loop" => (page = Len(requested) /\ page < max_pages)

\* all max_pages >= 3 pages were requested
C8_Witness ==
    /\ pc = "done"
    /\ max_pages >= 3
    /\ Len(requested) = max_pages

\* C2: every record that reaches the results table, from parse_product_json
\* or from scrape_individual_product, has the seven fields, each holding a
\* string ('N/A' when nothing was extracted), never None.
C2_AllFieldsText ==
    \A i \in 1..Len(out) :
        /\ DOMAIN out[i] = Fields
        /\ \A f \in Fields : out[i][f].t = "str"

====
